---- MODULE Spec2Model ----
(***************************************************************************)
(* State-machine model of src/src/main.rs: the exchange-rate Graph         *)
(* (add_edge, update_edge, find_arbitrage), the batch handler              *)
(* process_ticker_data and the stream loop                                 *)
(* listen_to_stream_and_update_graph.                                      *)
(*                                                                         *)
(* Strings that the code slices (symbols, currency codes) are sequences of *)
(* one-character strings.  An f64 is a record [kind, num, den]: a finite   *)
(* rational, +inf, -inf or NaN.  Natural logarithms are integers in        *)
(* micro-units obtained from the prime factorisation of the argument, so   *)
(* ln(x*y) = ln(x) + ln(y) holds exactly as it does over the reals; the    *)
(* rounding of f64 arithmetic is not modelled.  Option<T> is a sequence of *)
(* length 0 (None) or 1 (Some).                                            *)
(***************************************************************************)
EXTENDS Integers, Sequences, FiniteSets, TLC

VARIABLES
    edges,        \* Graph.edges: Vec<Edge>, a sequence of [start, end, rate]
    vertices,     \* Graph.vertices: HashSet<String>
    iter_first,   \* what vertices.iter().next() yields (hash order), an Option
    result,       \* what find_arbitrage returned in the step that made this state
    detections,   \* number of find_arbitrage calls in the step that made this state
    last,         \* the operation that made this state
    crashed,      \* the process has panicked
    listening,    \* the stream loop of listen_to_stream_and_update_graph is running
    received      \* the stream messages consumed so far

vars == <<edges, vertices, iter_first, result, detections, last, crashed,
          listening, received>>

(***************************************************************************)
(* Bounds of the model.                                                    *)
(***************************************************************************)
MaxEdges == 3
MaxMessages == 2
MaxDetections == 2

(***************************************************************************)
(* Strings and currency codes.                                             *)
(***************************************************************************)
BTC == <<"B", "T", "C">>
ETH == <<"E", "T", "H">>
USDT == <<"U", "S", "D", "T">>
BTCUSDT == BTC \o USDT
ETHBTC == ETH \o BTC
ETHUSDT == ETH \o USDT
DOGEUSDT == <<"D", "O", "G", "E">> \o USDT
AB == <<"A", "B">>
USDTUSDT == USDT \o USDT

None == <<>>
Some(x) == <<x>>

(***************************************************************************)
(* f64 values.                                                             *)
(***************************************************************************)
Num(n, d) == [kind |-> "num", num |-> n, den |-> d]
NaN == [kind |-> "nan", num |-> 0, den |-> 1]
INFINITY == [kind |-> "inf", num |-> 0, den |-> 1]
NEG_INFINITY == [kind |-> "-inf", num |-> 0, den |-> 1]

is_finite(x) == x.kind = "num"

\* x < y on f64 values whose finite members are integers (den = 1).
f64_lt(x, y) ==
    CASE x.kind = "nan" \/ y.kind = "nan" -> FALSE
      [] x.kind = "-inf" -> y.kind # "-inf"
      [] x.kind = "inf" -> FALSE
      [] y.kind = "inf" -> TRUE
      [] y.kind = "-inf" -> FALSE
      [] OTHER -> x.num < y.num

\* x + y on f64 values whose finite members are integers (den = 1).
f64_add(x, y) ==
    CASE x.kind = "nan" \/ y.kind = "nan" -> NaN
      [] x.kind = "num" /\ y.kind = "num" -> Num(x.num + y.num, 1)
      [] x.kind = "num" -> y
      [] y.kind = "num" -> x
      [] x.kind = y.kind -> x
      [] OTHER -> NaN

f64_neg(x) ==
    CASE x.kind = "num" -> Num(-x.num, x.den)
      [] x.kind = "inf" -> NEG_INFINITY
      [] x.kind = "-inf" -> INFINITY
      [] OTHER -> NaN

\* ln 2, ln 3, ln 5, ln 13 in micro-units.
LN_2 == 693147
LN_3 == 1098612
LN_5 == 1609438
LN_13 == 2564949

\* ln of a positive integer whose prime factors are among 2, 3, 5, 13.
RECURSIVE ln_nat(_)
ln_nat(n) ==
    IF n = 1 THEN 0
    ELSE IF n % 2 = 0 THEN LN_2 + ln_nat(n \div 2)
    ELSE IF n % 3 = 0 THEN LN_3 + ln_nat(n \div 3)
    ELSE IF n % 5 = 0 THEN LN_5 + ln_nat(n \div 5)
    ELSE LN_13 + ln_nat(n \div 13)

\* f64::log(self, E): ln of zero is -inf, of a negative number or NaN is NaN.
log_E(x) ==
    CASE x.kind = "nan" -> NaN
      [] x.kind = "inf" -> INFINITY
      [] x.kind = "-inf" -> NaN
      [] x.num = 0 -> NEG_INFINITY
      [] x.num < 0 -> NaN
      [] OTHER -> Num(ln_nat(x.num) - ln_nat(x.den), 1)

\* str::parse::<f64>() on the price strings of the model: Some(value) or None (Err).
parse_f64(c) ==
    CASE c = "2" -> Some(Num(2, 1))
      [] c = "0.5" -> Some(Num(1, 2))
      [] c = "50000" -> Some(Num(50000, 1))
      [] c = "0.05" -> Some(Num(1, 20))
      [] c = "2400" -> Some(Num(2400, 1))
      [] c = "2600" -> Some(Num(2600, 1))
      [] c = "0" -> Some(Num(0, 1))
      [] c = "-1" -> Some(Num(-1, 1))
      [] c = "NaN" -> Some(NaN)
      [] c = "inf" -> Some(INFINITY)
      [] OTHER -> None

(***************************************************************************)
(* extract_currency_pair: the fixed 3 / rest split.  Slicing a symbol      *)
(* shorter than 3 bytes panics.                                            *)
(***************************************************************************)
extract_currency_pair(symbol) ==
    IF Len(symbol) < 3
    THEN [panic |-> TRUE, base |-> <<>>, quote |-> <<>>]
    ELSE [panic |-> FALSE,
          base |-> SubSeq(symbol, 1, 3),
          quote |-> SubSeq(symbol, 4, Len(symbol))]

(***************************************************************************)
(* Graph                                                                   *)
(***************************************************************************)
Edge(start, end, rate) == [start |-> start, end |-> end, rate |-> rate]

\* The closure with the comparison of the end dropped.
matching_start_only(es, start, end) == {i \in 1..Len(es) : es[i].start = start}

\* Indices of the edges that the closure of update_edge matches.
matching(es, start, end) ==
    {i \in 1..Len(es) : es[i].start = start /\ es[i].end = end}

Min(S) == CHOOSE x \in S : \A y \in S : x <= y

\* Graph::update_edge on the edge vector: the first matching edge, if any.
update_edge(es, start, end, rate) ==
    IF matching(es, start, end) = {}
    THEN es
    ELSE [es EXCEPT ![Min(matching(es, start, end))].rate = rate]

\* The weight with the negation dropped.
weight_unnegated(e) == log_E(e.rate)

\* let weight = -edge.rate.log(E);
weight(e) == f64_neg(log_E(e.rate))

\* One step of the relaxation loop body for edge e (lines 73-80).
relax(st, e) ==
    LET new_dist == f64_add(st.distances[e.start], weight(e))
    IN  IF is_finite(new_dist) /\ f64_lt(new_dist, st.distances[e.end])
        THEN [distances |-> [st.distances EXCEPT ![e.end] = new_dist],
              predecessors |-> [st.predecessors EXCEPT ![e.end] = Some(e.start)]]
        ELSE st

\* for edge in &self.edges, from index i on.
RECURSIVE relax_all(_, _, _)
relax_all(st, es, i) ==
    IF i > Len(es) THEN st ELSE relax_all(relax(st, es[i]), es, i + 1)

\* for _ in 1..self.vertices.len(): n rounds left.
RECURSIVE relax_rounds(_, _, _)
relax_rounds(st, es, n) ==
    IF n <= 0 THEN st ELSE relax_rounds(relax_all(st, es, 1), es, n - 1)

\* The condition of the final sweep for edge e (lines 86-89).
still_relaxes(st, e) ==
    LET new_dist == f64_add(st.distances[e.start], weight(e))
    IN  is_finite(new_dist) /\ f64_lt(new_dist, st.distances[e.end])

Contains(s, x) == \E i \in 1..Len(s) : s[i] = x

Reverse(s) == [i \in 1..Len(s) |-> s[Len(s) + 1 - i]]

\* The predecessor walk (lines 93-101): the returned Option<Vec<String>>.
RECURSIVE walk(_, _, _)
walk(predecessors, cycle, lastv) ==
    IF predecessors[lastv] = None
    THEN None
    ELSE LET pred == predecessors[lastv][1]
         IN  IF Contains(cycle, pred)
             THEN Some(Reverse(Append(cycle, pred)))
             ELSE walk(predecessors, Append(cycle, pred), pred)

\* The loop of the walk without the test cycle.contains(&pred).
RECURSIVE walk_steps_unchecked(_, _, _, _)
walk_steps_unchecked(predecessors, cycle, lastv, fuel) ==
    IF fuel = 0 \/ predecessors[lastv] = None
    THEN 0
    ELSE 1 + walk_steps_unchecked(predecessors, Append(cycle, predecessors[lastv][1]),
                                  predecessors[lastv][1], fuel - 1)

\* The number of iterations of the while-let loop of the walk (lines 93-101),
\* counted up to fuel iterations.
RECURSIVE walk_steps(_, _, _, _)
walk_steps(predecessors, cycle, lastv, fuel) ==
    IF fuel = 0 \/ predecessors[lastv] = None
    THEN 0
    ELSE IF Contains(cycle, predecessors[lastv][1])
    THEN 1
    ELSE 1 + walk_steps(predecessors, Append(cycle, predecessors[lastv][1]),
                        predecessors[lastv][1], fuel - 1)

\* The walk from the head of the edge with index i.
walk_from(st, es, i) == walk(st.predecessors, <<es[i].end>>, es[i].end)

\* The final sweep (lines 85-104) over the edges whose indices are in hits, the
\* ones that still relax: the walk from the first of them, None when there is
\* none.
first_hit(st, es, hits) == IF hits = {} THEN None ELSE walk_from(st, es, Min(hits))

sweep(st, es) == first_hit(st, es, {i \in 1..Len(es) : still_relaxes(st, es[i])})

\* distances and predecessors after the initialisation (lines 63-67).
initial(vs, start_vertex) ==
    [distances |-> [v \in vs |-> IF v = start_vertex THEN Num(0, 1) ELSE INFINITY],
     predecessors |-> [v \in vs |-> None]]

\* distances and predecessors after the relaxation rounds (lines 63-82).
relaxed(es, vs, start_vertex) ==
    relax_rounds(initial(vs, start_vertex), es, Cardinality(vs) - 1)

\* Graph::find_arbitrage on a graph whose vertex iteration starts with first.
find_arbitrage(es, vs, first) ==
    IF first = None
    THEN None
    ELSE sweep(relaxed(es, vs, first[1]), es)

(***************************************************************************)
(* process_ticker_data                                                     *)
(***************************************************************************)
Tick(s, c) == [s |-> s, c |-> c]

\* The body of the for loop (lines 114-122) for one tick, on the edge vector:
\* the edges afterwards, and whether extract_currency_pair panicked.
apply_tick(g, data) ==
    LET pair == extract_currency_pair(data.s)
        price == parse_f64(data.c)
    IN  IF pair.panic
        THEN [g EXCEPT !.panic = TRUE]
        ELSE IF price = None
        THEN g
        ELSE [g EXCEPT !.edges = update_edge(g.edges, pair.base, pair.quote, price[1])]

\* for data in ticker_data, from index i on; a panic ends the loop.
RECURSIVE apply_ticks(_, _, _)
apply_ticks(g, batch, i) ==
    IF i > Len(batch) \/ g.panic
    THEN g
    ELSE apply_ticks(apply_tick(g, batch[i]), batch, i + 1)

\* The effect of one call of process_ticker_data(graph, batch) on the graph and
\* on the observations of the step; r is the outcome of the for loop.
handle_batch(batch) ==
    \E r \in {apply_ticks([edges |-> edges, panic |-> FALSE], batch, 1)} :
        /\ edges' = r.edges
        /\ crashed' = r.panic
        /\ detections' = IF r.panic THEN 0 ELSE 1
        /\ result' = IF r.panic THEN None
                     ELSE find_arbitrage(r.edges, vertices, iter_first)
        /\ last' = "process_ticker_data"
        /\ UNCHANGED <<vertices, iter_first>>

(***************************************************************************)
(* Inputs.                                                                 *)
(***************************************************************************)
Currencies == {BTC, ETH, USDT}
Rates == {Num(1, 2), Num(2, 1)}
Prices == {"0.5", "0"}
Ticks == {Tick(BTCUSDT, c) : c \in Prices}

\* Batches of several ticks: a malformed price before a valid tick, a tick
\* superseded within its batch, and a valid tick before a short symbol.
MixedBatches ==
    {<<Tick(BTCUSDT, "abc"), Tick(BTCUSDT, "0.5")>>,
     <<Tick(BTCUSDT, "0.5"), Tick(BTCUSDT, "0")>>,
     <<Tick(BTCUSDT, "0.5"), Tick(AB, "0.5")>>}

Batches == {<<>>} \cup {<<t>> : t \in Ticks} \cup MixedBatches

\* The two batches of the end-to-end scenario.
E2E_1 == <<Tick(BTCUSDT, "50000"), Tick(ETHBTC, "0.05"), Tick(ETHUSDT, "2400")>>
E2E_2 == <<Tick(ETHUSDT, "2600")>>

StreamSymbols == {BTCUSDT, DOGEUSDT, USDTUSDT, AB}
StreamTicks == {Tick(s, c) : s \in StreamSymbols, c \in {"50000", "0", "abc"}}

StreamBatches ==
    {<<>>, E2E_1, E2E_2} \cup {<<t>> : t \in StreamTicks} \cup MixedBatches

\* What read.next().await yields: a text or binary frame holding a ticker
\* array, one that is not a ticker array, a binary frame that is not UTF-8, a
\* frame that is neither text nor binary, or an error.
Msg(kind, data) == [kind |-> kind, data |-> data]
Messages ==
    {Msg("tickers", b) : b \in StreamBatches}
        \cup {Msg("bad_json", <<>>), Msg("bad_utf8", <<>>), Msg("other", <<>>),
              Msg("error", <<>>)}

(***************************************************************************)
(* The Graph and its handler, called directly.                             *)
(***************************************************************************)
Init ==
    /\ edges = <<>>
    /\ vertices = {}
    /\ iter_first = None
    /\ result = None
    /\ detections = 0
    /\ last = "new"
    /\ crashed = FALSE
    /\ listening = FALSE
    /\ received = <<>>

\* add_edge with the insertion of the end vertex dropped.
add_edge_start_only(start, end, rate) ==
    /\ ~crashed
    /\ Len(edges) < MaxEdges
    /\ vertices' = vertices \cup {start}
    /\ iter_first' \in {Some(v) : v \in vertices'}
    /\ edges' = Append(edges, Edge(start, end, rate))
    /\ result' = None
    /\ detections' = 0
    /\ last' = "add_edge"
    /\ UNCHANGED <<crashed, listening, received>>

\* Graph::add_edge.  The iteration order of the HashSet after an insert is any
\* order of its elements.
add_edge(start, end, rate) ==
    /\ ~crashed
    /\ Len(edges) < MaxEdges
    /\ vertices' = vertices \cup {start, end}
    /\ iter_first' \in {Some(v) : v \in vertices'}
    /\ edges' = Append(edges, Edge(start, end, rate))
    /\ result' = None
    /\ detections' = 0
    /\ last' = "add_edge"
    /\ UNCHANGED <<crashed, listening, received>>

process_ticker_data(batch) ==
    /\ ~crashed
    /\ handle_batch(batch)
    /\ UNCHANGED <<listening, received>>

Next ==
    \/ \E start \in Currencies :
           \E end \in Currencies \ {start}, rate \in Rates :
               add_edge(start, end, rate)
    \/ \E batch \in Batches : process_ticker_data(batch)

Spec == Init /\ [][Next]_vars

(***************************************************************************)
(* main: Graph::new, then listen_to_stream_and_update_graph.               *)
(***************************************************************************)
InitMain ==
    /\ edges = <<>>
    /\ vertices = {}
    /\ iter_first = None
    /\ result = None
    /\ detections = 0
    /\ last = "new"
    /\ crashed = FALSE
    /\ listening = TRUE
    /\ received = <<>>

\* A step of the loop that does not reach process_ticker_data: the graph is
\* untouched and no detection runs.
no_handler_run ==
    /\ result' = None
    /\ detections' = 0
    /\ UNCHANGED <<edges, vertices, iter_first>>

\* One iteration of the while loop for message msg (lines 137-156).
listen_to_stream_and_update_graph(msg) ==
    /\ listening
    /\ ~crashed
    /\ Len(received) < MaxMessages
    /\ received' = Append(received, msg)
    /\ CASE msg.kind = "tickers" ->
                /\ handle_batch(msg.data)
                /\ UNCHANGED listening
         [] msg.kind = "bad_utf8" ->
                /\ no_handler_run
                /\ crashed' = TRUE
                /\ last' = "unwrap"
                /\ UNCHANGED listening
         [] msg.kind = "error" ->
                /\ no_handler_run
                /\ listening' = FALSE
                /\ last' = "break"
                /\ UNCHANGED crashed
         [] OTHER ->
                /\ no_handler_run
                /\ last' = "continue"
                /\ UNCHANGED <<crashed, listening>>

\* read.next().await yields None: the loop ends.
stream_end ==
    /\ listening
    /\ ~crashed
    /\ no_handler_run
    /\ listening' = FALSE
    /\ last' = "end"
    /\ UNCHANGED <<crashed, received>>

NextMain ==
    \/ \E msg \in Messages : listen_to_stream_and_update_graph(msg)
    \/ stream_end

SpecMain == InitMain /\ [][NextMain]_vars

(***************************************************************************)
(* The Graph alone: add_edge, and find_arbitrage called on the graph as it *)
(* stands; detections counts the calls since the graph last changed.       *)
(***************************************************************************)
\* The call with a vertex iteration order that differs from call to call.
detect_rehashed ==
    /\ detections < MaxDetections
    /\ iter_first' \in {Some(v) : v \in vertices}
    /\ result' = find_arbitrage(edges, vertices, iter_first')
    /\ detections' = detections + 1
    /\ last' = "find_arbitrage"
    /\ UNCHANGED <<edges, vertices, crashed, listening, received>>

\* The call, emptying the edge vector.
detect_clearing ==
    /\ detections < MaxDetections
    /\ result' = find_arbitrage(edges, vertices, iter_first)
    /\ detections' = detections + 1
    /\ last' = "find_arbitrage"
    /\ edges' = <<>>
    /\ UNCHANGED <<vertices, iter_first, crashed, listening, received>>

\* graph.find_arbitrage(): &self, the graph is only read.
detect ==
    /\ detections < MaxDetections
    /\ result' = find_arbitrage(edges, vertices, iter_first)
    /\ detections' = detections + 1
    /\ last' = "find_arbitrage"
    /\ UNCHANGED <<edges, vertices, iter_first, crashed, listening, received>>

NextDetect ==
    \/ \E start \in Currencies :
           \E end \in Currencies \ {start}, rate \in Rates :
               add_edge(start, end, rate)
    \/ detect

SpecDetect == Init /\ [][NextDetect]_vars

(***************************************************************************)
(* Cycles of the stored multigraph, by the rates themselves (products of   *)
(* rationals, no logarithm).                                               *)
(***************************************************************************)
\* Non-empty sequences of distinct edge indices.
IndexPaths(es) ==
    {p \in UNION {[1..k -> 1..Len(es)] : k \in 1..Len(es)} :
        \A i, j \in 1..Len(p) : p[i] = p[j] => i = j}

\* Closed paths: each edge ends where the next one starts, the last where the
\* first starts.
Cycles(es) ==
    {p \in IndexPaths(es) :
        /\ \A i \in 1..(Len(p) - 1) : es[p[i]].end = es[p[i + 1]].start
        /\ es[p[Len(p)]].end = es[p[1]].start}

RECURSIVE prod_num(_, _, _)
prod_num(es, p, i) == IF i > Len(p) THEN 1 ELSE es[p[i]].rate.num * prod_num(es, p, i + 1)

RECURSIVE prod_den(_, _, _)
prod_den(es, p, i) == IF i > Len(p) THEN 1 ELSE es[p[i]].rate.den * prod_den(es, p, i + 1)

AllNum(es, p) == \A i \in 1..Len(p) : es[p[i]].rate.kind = "num" /\ es[p[i]].rate.num >= 0

\* The product of the rates along p exceeds 1, equals 1.
ProductExceeds1(es, p) == AllNum(es, p) /\ prod_num(es, p, 1) > prod_den(es, p, 1)
ProductIs1(es, p) == AllNum(es, p) /\ prod_num(es, p, 1) = prod_den(es, p, 1)

HasArbitrage(es) == \E p \in Cycles(es) : ProductExceeds1(es, p)

\* r2 = 1 / r1.
Reciprocal(r1, r2) ==
    /\ r1.kind = "num" /\ r2.kind = "num"
    /\ r1.num # 0
    /\ r1.num * r2.num = r1.den * r2.den

\* A rate the specification calls valid: finite and strictly positive.
valid_rate(r) == r.kind = "num" /\ r.num > 0

\* The valid ticks that a run of process_ticker_data on batch applies, from
\* index i on: pair |-> the rate of the latest such tick, added to h.
RECURSIVE applied_by(_, _, _)
applied_by(h, batch, i) ==
    IF i > Len(batch) \/ extract_currency_pair(batch[i].s).panic
    THEN h
    ELSE LET pair == extract_currency_pair(batch[i].s)
             price == parse_f64(batch[i].c)
         IN  applied_by(IF price # None /\ valid_rate(price[1])
                        THEN (<<pair.base, pair.quote>> :> price[1]) @@ h
                        ELSE h,
                        batch, i + 1)

\* The batch handled by the step that made this state.
last_batch == received[Len(received)].data

Ran(s) == {s[i] : i \in 1..Len(s)}

\* The edge-index choices that follow the vertex sequence c edge by edge.
Along(es, c) ==
    {q \in [1..(Len(c) - 1) -> 1..Len(es)] :
        \A i \in 1..(Len(c) - 1) : es[q[i]].start = c[i] /\ es[q[i]].end = c[i + 1]}

\* c is an ArbitrageCycle of the stored graph.
WellFormedCycle(es, c) ==
    /\ Len(c) >= 3
    /\ c[1] = c[Len(c)]
    /\ \A i, j \in 1..(Len(c) - 1) : c[i] = c[j] => i = j
    /\ \E q \in Along(es, c) : ProductExceeds1(es, q)

\* The stored graph is one directed cycle through all of its two or more
\* vertices, and nothing else.
IsSingleCycle(es, vs) ==
    /\ Len(es) >= 2
    /\ Len(es) = Cardinality(vs)
    /\ \E p \in Cycles(es) :
           /\ Len(p) = Len(es)
           /\ {es[p[i]].start : i \in 1..Len(p)} = vs

Detected == last = "process_ticker_data" /\ detections = 1

(***************************************************************************)
(* Claims.                                                                 *)
(***************************************************************************)

\* C1: the graph holds every pair in both directions: an edge (a,b) is stored
\* iff an edge (b,a) is stored, and the rate of (b,a) is the reciprocal of the
\* rate of (a,b).
C1_BothDirections ==
    \A i \in 1..Len(edges) :
        \E j \in 1..Len(edges) :
            /\ edges[j].start = edges[i].end
            /\ edges[j].end = edges[i].start
            /\ Reciprocal(edges[i].rate, edges[j].rate)

\* C2: after process_ticker_data has applied a valid tick for (base, quote), the
\* graph contains the vertices base and quote and an edge base -> quote
\* carrying the rate of the latest such tick.
C2_TickCreatesEdge ==
    (last = "process_ticker_data" /\ ~crashed) =>
        \A p \in DOMAIN applied_by(<<>>, last_batch, 1) :
            /\ p[1] \in vertices
            /\ p[2] \in vertices
            /\ \E i \in matching(edges, p[1], p[2]) :
                   edges[i].rate = applied_by(<<>>, last_batch, 1)[p]

\* C3: every stored edge has a finite rate strictly greater than 0.
C3_StoredRatesValid == \A i \in 1..Len(edges) : valid_rate(edges[i].rate)

\* The rates stored for the pair p.
rates_of(es, p) == {es[i].rate : i \in matching(es, p[1], p[2])}

OneEdgePerPair(es) ==
    \A i \in 1..Len(es) : matching(es, es[i].start, es[i].end) = {i}

\* Latest tick wins, for a run of process_ticker_data on batch from the edges
\* es to the edges es2: a pair with a valid tick in the batch carries the rate
\* of the latest one, any other pair keeps its rates.
LatestWins(es, batch, es2) ==
    \A i \in 1..Len(es2) :
        LET p == <<es2[i].start, es2[i].end>>
        IN  IF p \in DOMAIN applied_by(<<>>, batch, 1)
            THEN es2[i].rate = applied_by(<<>>, batch, 1)[p]
            ELSE rates_of(es2, p) = rates_of(es, p)

\* C4: after every insertion and update at most one edge is stored for each
\* ordered pair, and after every run of process_ticker_data its rate is that of
\* the most recent valid tick applied for the pair.
C4_OneEdgeLatestWins ==
    [][/\ OneEdgePerPair(edges')
       /\ \A batch \in Batches :
              process_ticker_data(batch) => LatestWins(edges, batch, edges')]_vars

\* C5: whenever the stored graph contains a cycle whose rate product exceeds 1,
\* the detection returns a cycle, whichever vertex the traversal starts from.
C5_FindsCycleAnywhere == (Detected /\ HasArbitrage(edges)) => result # None

\* C6: every cycle the detection returns is a well-formed ArbitrageCycle: at
\* least 3 currencies, first equal to last, no other repetition (no tail),
\* every consecutive pair a stored edge, rate product above 1.
C6_ResultWellFormed == result # None => WellFormedCycle(edges, result[1])

\* C7: when no cycle of the stored graph has a rate product strictly greater
\* than 1, the detection returns None (stated by its contrapositive: a returned
\* cycle implies that some stored cycle has a rate product above 1).
C7_NoFalsePositive == (Detected /\ result # None) => HasArbitrage(edges)

\* C7 witness: a detection that returned None on a graph holding a cycle whose
\* rate product is exactly 1.
C7_Witness ==
    /\ Detected
    /\ result = None
    /\ ~HasArbitrage(edges)
    /\ \E p \in Cycles(edges) : Len(p) >= 2 /\ ProductIs1(edges, p)

\* C8: on a graph that is a single directed cycle with rate product above 1,
\* the detection returns a cycle over exactly the vertices of the graph, in
\* forward conversion order, for every start vertex and edge order.
C8_SingleCycleFound ==
    (Detected /\ IsSingleCycle(edges, vertices) /\ HasArbitrage(edges)) =>
        /\ result # None
        /\ Ran(result[1]) = vertices
        /\ WellFormedCycle(edges, result[1])

\* C9: from the empty graph, after the batch [BTCUSDT 50000, ETHBTC 0.05,
\* ETHUSDT 2400] no arbitrage is reported, and after the follow-up batch
\* [ETHUSDT 2600] a cycle through exactly {USDT, BTC, ETH} is reported.
C9_EndToEnd ==
    /\ received = <<Msg("tickers", E2E_1)>> => (detections = 1 /\ result = None)
    /\ received = <<Msg("tickers", E2E_1), Msg("tickers", E2E_2)>> =>
           (detections = 1 /\ result # None /\ Ran(result[1]) = {USDT, BTC, ETH})

\* C10: every run of process_ticker_data invokes the detection exactly once, on
\* the graph with all ticks of the batch applied.
C10_DetectOncePerBatch ==
    last = "process_ticker_data" =>
        /\ detections = 1
        /\ result = find_arbitrage(edges, vertices, iter_first)

\* C11: per-tick errors are never fatal: no run of process_ticker_data crashes,
\* whatever the symbols and prices of its batch.
C11_TickErrorsNotFatal == last = "process_ticker_data" => ~crashed

\* The ticks of batch from index i on whose price does not parse.
RECURSIVE malformed(_, _)
malformed(batch, i) ==
    IF i > Len(batch) THEN {}
    ELSE (IF parse_f64(batch[i].c) = None THEN {i} ELSE {}) \cup malformed(batch, i + 1)

\* The graph es2 holds the edge of every valid tick of batch, with its rate.
ValidTicksStored(batch, es2) ==
    \A p \in DOMAIN applied_by(<<>>, batch, 1) :
        \E i \in 1..Len(es2) :
            /\ es2[i].start = p[1]
            /\ es2[i].end = p[2]
            /\ es2[i].rate = applied_by(<<>>, batch, 1)[p]

\* C12: a batch that mixes ticks with unparseable prices and valid ticks leaves
\* the graph with exactly the valid ticks' edges applied: every valid tick's
\* edge is stored with its rate, and no other pair's rate has changed.
C12_MixedBatchApplied ==
    [][\A batch \in Batches :
           (malformed(batch, 1) # {} /\ process_ticker_data(batch)) =>
               /\ ValidTicksStored(batch, edges')
               /\ LatestWins(edges, batch, edges')]_vars

\* The configured quote currencies.
BNB == <<"B", "N", "B">>
BUSD == <<"B", "U", "S", "D">>
QuoteSet == {USDT, BTC, ETH, BNB, BUSD}

IsSuffix(q, symbol) ==
    Len(q) <= Len(symbol) /\ SubSeq(symbol, Len(symbol) - Len(q) + 1, Len(symbol)) = q

Pair(base, quote) == [kind |-> "pair", base |-> base, quote |-> quote]
InvalidSymbol == [kind |-> "InvalidSymbol", base |-> <<>>, quote |-> <<>>]
Panic == [kind |-> "panic", base |-> <<>>, quote |-> <<>>]

\* The normalization that the claim describes: split at the longest quote
\* suffix; InvalidSymbol without one, with an empty base, or a self-pair.
normalize(symbol) ==
    LET suffixes == {q \in QuoteSet : IsSuffix(q, symbol)}
    IN  IF suffixes = {} THEN InvalidSymbol
        ELSE LET quote == CHOOSE q \in suffixes : \A r \in suffixes : Len(r) <= Len(q)
                 base == SubSeq(symbol, 1, Len(symbol) - Len(quote))
             IN  IF base = <<>> \/ base = quote THEN InvalidSymbol
                 ELSE Pair(base, quote)

\* What extract_currency_pair does with the symbol.
extracted(symbol) ==
    IF extract_currency_pair(symbol).panic THEN Panic
    ELSE Pair(extract_currency_pair(symbol).base, extract_currency_pair(symbol).quote)

\* C13: the symbol of every tick handed to process_ticker_data is split at the
\* longest configured quote suffix (BTCUSDT -> (BTC, USDT), DOGEUSDT ->
\* (DOGE, USDT)), and fails with InvalidSymbol when there is no such split
\* (no suffix, empty base, self-pair such as USDTUSDT).
C13_NormalizeSymbol ==
    last = "process_ticker_data" =>
        \A i \in 1..Len(last_batch) :
            extracted(last_batch[i].s) = normalize(last_batch[i].s)

Hits(st, es) == {i \in 1..Len(es) : still_relaxes(st, es[i])}

\* The iterations of the walk from the head of edge i, counted up to n + 1.
StepsFrom(st, es, i, n) == walk_steps(st.predecessors, <<es[i].end>>, es[i].end, n + 1)

WalkWithin(st, es, n) == \A i \in Hits(st, es) : StepsFrom(st, es, i, n) <= n

\* C15: the predecessor walk from the head of an edge that still relaxes after
\* the relaxation rounds ends after at most |V| iterations.
C15_WalkTerminates ==
    (Detected /\ edges # <<>>) =>
        WalkWithin(relaxed(edges, vertices, iter_first[1]), edges, Cardinality(vertices))

WalkOfLength(st, es, n) == \E i \in Hits(st, es) : StepsFrom(st, es, i, n) = n

\* C15 witness: a detection on three vertices whose walk takes |V| iterations.
C15_Witness ==
    /\ Detected
    /\ Cardinality(vertices) = 3
    /\ WalkOfLength(relaxed(edges, vertices, iter_first[1]), edges, 3)

\* C16: whenever the final sweep finds an edge that still relaxes, the
\* detector returns a cycle.
C16_SweepHitGivesCycle ==
    (Detected /\ edges # <<>>) =>
        (Hits(relaxed(edges, vertices, iter_first[1]), edges) # {} => result # None)

\* C17: a detection pass only reads the graph: a call of find_arbitrage leaves
\* the vertex set, the edges and every stored rate unchanged, whether it
\* reports a cycle or none.
C17_DetectionReadsOnly ==
    [][last' = "find_arbitrage" => (edges' = edges /\ vertices' = vertices)]_vars

\* C17 witness: a first detection on a graph of three edges that reported a
\* cycle.
C17_Witness ==
    last = "find_arbitrage" /\ detections = 1 /\ Len(edges) = 3 /\ result # None

\* The ordered pairs that have an edge.
PairsOf(es) == {<<es[i].start, es[i].end>> : i \in 1..Len(es)}

\* The batch holds a tick with a parseable price for the pair of edge e.
TickFor(batch, e) ==
    \E k \in 1..Len(batch) :
        batch[k].s = e.start \o e.end /\ parse_f64(batch[k].c) # None

\* C18: no eviction: in every step the vertex set and the set of ordered pairs
\* that have an edge do not shrink, and the rate of an edge changes only in a
\* run of process_ticker_data whose batch holds a tick for that same pair.
C18_NoEviction ==
    [][/\ vertices \subseteq vertices'
       /\ PairsOf(edges) \subseteq PairsOf(edges')
       /\ Len(edges) <= Len(edges')
       /\ \A i \in 1..Len(edges) :
              edges'[i].rate # edges[i].rate =>
                  \E batch \in Batches :
                      process_ticker_data(batch) /\ TickFor(batch, edges[i])]_vars

\* C18 witness: a run of process_ticker_data has set the rate of BTC -> USDT
\* to 0, a rate that only a tick stores, beside an edge of another pair.
C18_Witness ==
    /\ last = "process_ticker_data"
    /\ \E i, j \in 1..Len(edges) :
           /\ edges[i] = Edge(BTC, USDT, Num(0, 1))
           /\ edges[j].start = BTC
           /\ edges[j].end = ETH

\* C19: both endpoints of every stored edge are members of the vertex set, so
\* every distances and predecessors lookup of find_arbitrage has its key.
C19_EndpointsAreVertices ==
    \A i \in 1..Len(edges) : edges[i].start \in vertices /\ edges[i].end \in vertices

\* C19 witness: a detection that ran on three edges over three vertices and
\* returned a cycle.
C19_Witness ==
    /\ Detected
    /\ Len(edges) = 3
    /\ Cardinality(vertices) = 3
    /\ result # None

====
